---- MODULE Spec2Model ----
(***************************************************************************)
(* Streaming statistics of tensorflow_probability/python/experimental/     *)
(* stats/sample_stats.py: RunningCovariance, RunningVariance and           *)
(* RunningExpectations, with the tensor operations they call.              *)
(*                                                                         *)
(* Numbers are exact: a number is a pair <<n, d>>, the fraction n/d in     *)
(* lowest terms with d > 0, or one of the three non-finite values a        *)
(* floating-point division produces: <<1, 0>> (+inf), <<-1, 0>> (-inf) and *)
(* <<0, 0>> (not-a-number).  A tensor is a record [shape, data] whose data *)
(* maps every index tuple of the shape to a number; TErr is the outcome of *)
(* an operation the array backend rejects with an exception.               *)
(***************************************************************************)
EXTENDS Integers, Sequences, FiniteSets, TLC

(***************************************************************************)
(* Bounds of the model.                                                    *)
(***************************************************************************)
MaxSamples == 3

MaxRank == 15

(***************************************************************************)
(* Numbers.                                                                *)
(***************************************************************************)
Abs(x) == IF x < 0 THEN -x ELSE x

Sign(x) == IF x < 0 THEN -1 ELSE IF x > 0 THEN 1 ELSE 0

RECURSIVE Gcd(_, _)
Gcd(a, b) == IF b = 0 THEN a ELSE Gcd(b, a % b)

Nan == <<0, 0>>

Inf(s) == <<s, 0>>

IsFinite(x) == x[2] # 0

IsNan(x) == x = Nan

\* The fraction n/d, d # 0, in lowest terms with a positive denominator.
Frac(n, d) ==
  LET g == Gcd(Abs(n), Abs(d))
      s == IF d < 0 THEN -1 ELSE 1
  IN <<(s * n) \div g, (s * d) \div g>>

Num(k) == <<k, 1>>

Zero == Num(0)

One == Num(1)

RAdd(x, y) ==
  IF IsNan(x) \/ IsNan(y) THEN Nan
  ELSE IF ~IsFinite(x) /\ ~IsFinite(y) THEN (IF x = y THEN x ELSE Nan)
  ELSE IF ~IsFinite(x) THEN x
  ELSE IF ~IsFinite(y) THEN y
  ELSE Frac(x[1] * y[2] + y[1] * x[2], x[2] * y[2])

RNeg(x) == <<-x[1], x[2]>>

RSub(x, y) == RAdd(x, RNeg(y))

RMul(x, y) ==
  IF IsNan(x) \/ IsNan(y) THEN Nan
  ELSE IF ~IsFinite(x) \/ ~IsFinite(y)
    THEN (IF x[1] = 0 \/ y[1] = 0 THEN Nan ELSE Inf(Sign(x[1]) * Sign(y[1])))
  ELSE Frac(x[1] * y[1], x[2] * y[2])

\* Floating-point division: x/0 is an infinity, 0/0 is not-a-number, and no
\* division raises.
RDiv(x, y) ==
  IF IsNan(x) \/ IsNan(y) THEN Nan
  ELSE IF ~IsFinite(x) THEN (IF ~IsFinite(y) THEN Nan
                             ELSE Inf(Sign(x[1]) * (IF y[1] < 0 THEN -1 ELSE 1)))
  ELSE IF ~IsFinite(y) THEN Zero
  ELSE IF y[1] = 0 THEN (IF x[1] = 0 THEN Nan ELSE Inf(Sign(x[1])))
  ELSE Frac(x[1] * y[2], x[2] * y[1])

RECURSIVE RSum(_)
RSum(s) == IF s = <<>> THEN Zero ELSE RAdd(Head(s), RSum(Tail(s)))

(***************************************************************************)
(* Tensors of the array backend.                                           *)
(***************************************************************************)
Max(a, b) == IF a >= b THEN a ELSE b

RECURSIVE Idx(_)
Idx(shape) ==
  IF shape = <<>> THEN {<<>>}
  ELSE LET n == Len(shape)
       IN {Append(p, i) : p \in Idx(SubSeq(shape, 1, n - 1)), i \in 1..shape[n]}

ErrShape == <<-1>>

\* A tensor value.  TLC evaluates a function expression anew at every
\* application; f @@ <<>> and s \o <<>> are f and s, evaluated once.
MkTensor(shape, data) == [shape |-> shape \o <<>>, data |-> data @@ <<>>]

TErr == [shape |-> ErrShape, data |-> <<>>]

IsErr(t) == t.shape = ErrShape

Rank(t) == Len(t.shape)

Fill(shape, x) == MkTensor(shape, [i \in Idx(shape) |-> x])

\* tf.zeros(shape)
Zeros(shape) == Fill(shape, Zero)

\* tf.ones(shape)
Ones(shape) == Fill(shape, One)

Scalar(x) == Fill(<<>>, x)

InsertAt(s, pos, x) == SubSeq(s, 1, pos - 1) \o <<x>> \o SubSeq(s, pos, Len(s))

RemoveAt(s, pos) == SubSeq(s, 1, pos - 1) \o SubSeq(s, pos + 1, Len(s))

\* Python's seq[start:] and seq[:stop], negative positions counted from the end.
PySliceFrom(s, start) ==
  LET n == Len(s)
      b == IF start < 0 THEN Max(n + start, 0) ELSE start
  IN IF b >= n THEN <<>> ELSE SubSeq(s, b + 1, n)

PySliceTo(s, stop) ==
  LET n == Len(s)
      e == IF stop < 0 THEN Max(n + stop, 0) ELSE IF stop > n THEN n ELSE stop
  IN SubSeq(s, 1, e)

\* Broadcasting of two shapes, aligned at their last dimensions; ErrShape when
\* the backend rejects the pair.
BroadcastShape(s1, s2) ==
  LET r == Max(Len(s1), Len(s2))
      P(s) == [k \in 1..r |-> IF k <= r - Len(s) THEN 1 ELSE s[k - (r - Len(s))]]
      p1 == P(s1)
      p2 == P(s2)
  IN IF \A k \in 1..r : p1[k] = p2[k] \/ p1[k] = 1 \/ p2[k] = 1
       THEN [k \in 1..r |-> IF p1[k] = 1 THEN p2[k] ELSE p1[k]]
       ELSE ErrShape

\* The entry of t that index i of a broadcast result reads.
At(t, i) ==
  LET r == Len(t.shape)
  IN t.data[[k \in 1..r |-> IF t.shape[k] = 1 THEN 1 ELSE i[k + Len(i) - r]]]

\* The backend's binary operation op on two values.
Apply(op, x, y) ==
  CASE op = "+" -> RAdd(x, y)
    [] op = "-" -> RSub(x, y)
    [] op = "*" -> RMul(x, y)
    [] op = "/" -> RDiv(x, y)

\* An elementwise binary operation with broadcasting.
Elementwise(op, a, b) ==
  IF IsErr(a) \/ IsErr(b) THEN TErr
  ELSE LET s == BroadcastShape(a.shape, b.shape)
       IN IF s = ErrShape THEN TErr
          ELSE MkTensor(s, [i \in Idx(s) |-> Apply(op, At(a, i), At(b, i))])

TAdd(a, b) == Elementwise("+", a, b)

TSub(a, b) == Elementwise("-", a, b)

TMul(a, b) == Elementwise("*", a, b)

TDiv(a, b) == Elementwise("/", a, b)

\* An axis argument as the backend reads it: negative axes count from the
\* end; -1 stands for an axis out of range.
NormAxis(axis, rank) ==
  LET a == IF axis < 0 THEN axis + rank ELSE axis
  IN IF a >= 0 /\ a < rank THEN a ELSE -1

\* tf.reduce_sum(t, axis=axis)
ReduceSum(t, axis) ==
  IF IsErr(t) THEN TErr
  ELSE LET a == NormAxis(axis, Rank(t))
       IN IF a < 0 THEN TErr
          ELSE LET m == t.shape[a + 1]
                   s == RemoveAt(t.shape, a + 1)
               IN MkTensor(s,
                   [i \in Idx(s) |->
                     RSum([j \in 1..m |-> t.data[InsertAt(i, a + 1, j)]])])

\* tf.math.reduce_mean(t, axis=axis); the mean over no entries is 0/0.
ReduceMean(t, axis) ==
  IF IsErr(t) THEN TErr
  ELSE LET a == NormAxis(axis, Rank(t))
       IN IF a < 0 THEN TErr
          ELSE TDiv(ReduceSum(t, axis), Scalar(Num(t.shape[a + 1])))

\* tf.expand_dims(t, axis=axis)
ExpandDims(t, axis) ==
  IF IsErr(t) THEN TErr
  ELSE LET a == NormAxis(axis, Rank(t) + 1)
       IN IF a < 0 THEN TErr
          ELSE LET s == InsertAt(t.shape, a + 1, 1)
               IN MkTensor(s,
                   [i \in Idx(s) |-> t.data[RemoveAt(i, a + 1)]])

\* tf.transpose(t, perm): perm lists every axis 0..rank-1 once.
Transpose(t, perm) ==
  IF IsErr(t) THEN TErr
  ELSE LET r == Rank(t)
       IN IF Len(perm) # r \/ {perm[k] : k \in 1..Len(perm)} # 0..(r - 1) THEN TErr
          ELSE LET s == [k \in 1..r |-> t.shape[perm[k] + 1]]
               IN MkTensor(s,
                   [i \in Idx(s) |->
                     t.data[[d \in 1..r |->
                       i[CHOOSE k \in 1..r : perm[k] + 1 = d]]]])

\* ps.shape(t)[axis], Python indexing; -1 stands for IndexError.
ShapeAt(t, axis) ==
  LET a == NormAxis(axis, Rank(t))
  IN IF a < 0 THEN -1 ELSE t.shape[a + 1]

\* Truncation toward zero of a finite number.
Trunc(x) == Num(Sign(x[1]) * (Abs(x[1]) \div x[2]))

IsIntegerDtype(dtype) == dtype \in {"int32", "int64"}

\* tf.cast(t, dtype=dtype): a floating dtype keeps every value of the model's
\* exact numbers, an integer dtype truncates toward zero.
Cast(t, dtype) ==
  IF IsErr(t) THEN TErr
  ELSE IF IsIntegerDtype(dtype)
    THEN MkTensor(t.shape,
          [i \in Idx(t.shape) |->
                     IF IsFinite(t.data[i]) THEN Trunc(t.data[i]) ELSE Zero])
  ELSE t

(***************************************************************************)
(* tf.einsum on two operands, '...<l1>,...<l2>-><...lo>'.  A label is the  *)
(* code point of its character.                                            *)
(***************************************************************************)
Range(s) == {s[k] : k \in 1..Len(s)}

RECURSIVE SortedSeq(_)
SortedSeq(S) ==
  IF S = {} THEN <<>>
  ELSE LET m == CHOOSE x \in S : \A y \in S : x <= y
       IN <<m>> \o SortedSeq(S \ {m})

RECURSIVE SeqOfSet(_)
SeqOfSet(S) ==
  IF S = {} THEN <<>>
  ELSE LET m == CHOOSE x \in S : TRUE
       IN <<m>> \o SeqOfSet(S \ {m})

IsLetter(c) == (c >= 97 /\ c <= 122) \/ (c >= 65 /\ c <= 90)

IsLowercase(c) == c >= 97 /\ c <= 122

Einsum(l1, l2, lo, t1, t2) ==
  IF IsErr(t1) \/ IsErr(t2) THEN TErr
  ELSE
  LET p == Len(l1)
      q == Len(l2)
      r1 == Rank(t1)
      r2 == Rank(t2)
  IN IF \/ \E c \in Range(l1) \cup Range(l2) \cup Range(lo) : ~IsLetter(c)
        \/ p > r1 \/ q > r2
        \/ Cardinality(Range(lo)) # Len(lo)
        \/ ~(Range(lo) \subseteq Range(l1) \cup Range(l2))
     THEN TErr
     ELSE
     LET b1 == SubSeq(t1.shape, 1, r1 - p)
         b2 == SubSeq(t2.shape, 1, r2 - q)
         bs == BroadcastShape(b1, b2)
         \* the extents each label is given by the operands
         Dims(c) == {t1.shape[r1 - p + k] : k \in {j \in 1..p : l1[j] = c}}
                    \cup {t2.shape[r2 - q + k] : k \in {j \in 1..q : l2[j] = c}}
     IN IF bs = ErrShape
           \/ \E c \in Range(l1) \cup Range(l2) : Cardinality(Dims(c)) # 1
        THEN TErr
        ELSE
        LET Dim(c) == CHOOSE d \in Dims(c) : TRUE
            nb == Len(bs)
            s == bs \o [k \in 1..Len(lo) |-> Dim(lo[k])]
            summed == SortedSeq((Range(l1) \cup Range(l2)) \ Range(lo))
            envs == SeqOfSet(Idx([k \in 1..Len(summed) |-> Dim(summed[k])]))
            Val(c, i, e) ==
              IF c \in Range(lo)
                THEN i[nb + (CHOOSE k \in 1..Len(lo) : lo[k] = c)]
                ELSE e[CHOOSE k \in 1..Len(summed) : summed[k] = c]
            Arg(t, ls, bt, i, e) ==
              t.data[[k \in 1..Rank(t) |->
                IF k <= Len(bt)
                  THEN (IF bt[k] = 1 THEN 1 ELSE i[k + nb - Len(bt)])
                  ELSE Val(ls[k - Len(bt)], i, e)]]
        IN MkTensor(s,
            [i \in Idx(s) |->
              RSum([n \in 1..Len(envs) |->
                RMul(Arg(t1, l1, b1, i, envs[n]), Arg(t2, l2, b2, i, envs[n]))])])

\* Python's range(lo, hi), as the sequence of its values.
PyRange(lo, hi) == [k \in 1..Max(hi - lo, 0) |-> lo + k - 1]

OrdA == 97

\* The labels _batch_outer_product generates and their split.
assign_indices(event_ndims) == PyRange(OrdA, OrdA + event_ndims * 2)

first_indices(event_ndims) == PySliceTo(assign_indices(event_ndims), event_ndims)

second_indices(event_ndims) == PySliceFrom(assign_indices(event_ndims), event_ndims)

batch_outer_product_contracting(target, event_ndims) ==
  Einsum(first_indices(event_ndims), second_indices(event_ndims),
         first_indices(event_ndims), target, target)

batch_outer_product(target, event_ndims) ==
  Einsum(first_indices(event_ndims), second_indices(event_ndims),
         assign_indices(event_ndims), target, target)

(***************************************************************************)
(* Optional values: <<>> is Python's None (or an object not yet made),     *)
(* <<v>> is the value v.                                                   *)
(***************************************************************************)
None == <<>>

Some(v) == <<v>>

(***************************************************************************)
(* RunningCovariance and RunningVariance.                                  *)
(***************************************************************************)
MaxEventNdims == 13

RunningCovarianceState(num_samples, mean, sum_squared_residuals) ==
  [num_samples |-> num_samples, mean |-> mean,
   sum_squared_residuals |-> sum_squared_residuals]

\* A call raised iff some tensor of its result is the backend's exception.
Raised(st) ==
  IsErr(st.num_samples) \/ IsErr(st.mean) \/ IsErr(st.sum_squared_residuals)

\* The merge step of _update_running_covariance, by the local it assigns.
new_n(state, chunk_n) == TAdd(state.num_samples, chunk_n)

delta_mean(state, chunk_mean) == TSub(chunk_mean, state.mean)

new_mean_dividing_by_chunk_n(state, chunk_n, chunk_mean) ==
  TAdd(state.mean, TDiv(TMul(chunk_n, delta_mean(state, chunk_mean)), chunk_n))

new_mean(state, chunk_n, chunk_mean) ==
  TAdd(state.mean,
       TDiv(TMul(chunk_n, delta_mean(state, chunk_mean)), new_n(state, chunk_n)))

adj_factor(state, chunk_n) ==
  TDiv(TMul(state.num_samples, chunk_n), TAdd(state.num_samples, chunk_n))

new_sum_squared_residuals(state, chunk_n, chunk_mean, chunk_ssr, event_ndims) ==
  LET all_pairwise_deltas ==
        batch_outer_product(delta_mean(state, chunk_mean), event_ndims)
  IN TAdd(TAdd(state.sum_squared_residuals, chunk_ssr),
          TMul(adj_factor(state, chunk_n), all_pairwise_deltas))

update_running_covariance(state, sample, event_ndims, dtype, axis) ==
  LET new_sample == Cast(sample, dtype)
      chunked == axis # None
      chunk_n ==
        IF chunked
          THEN (IF ShapeAt(new_sample, axis[1]) < 0 THEN TErr
                ELSE Cast(Scalar(Num(ShapeAt(new_sample, axis[1]))), dtype))
          ELSE Ones(<<>>)
      chunk_mean ==
        IF chunked THEN ReduceMean(new_sample, axis[1]) ELSE new_sample
      chunk_delta_mean == TSub(new_sample, ExpandDims(chunk_mean, axis[1]))
      chunk_sum_squared_residuals ==
        IF chunked
          THEN ReduceSum(batch_outer_product(chunk_delta_mean, event_ndims), axis[1])
          ELSE Zeros(state.sum_squared_residuals.shape)
  IN RunningCovarianceState(
       new_n(state, chunk_n),
       new_mean(state, chunk_n, chunk_mean),
       new_sum_squared_residuals(state, chunk_n, chunk_mean,
                                 chunk_sum_squared_residuals, event_ndims))

\* The outcome of a constructor: the object, or the exception it raised.
Object(fields) == [raised |-> "", obj |-> Some(fields)]

Raise(exc) == [raised |-> exc, obj |-> None]

\* RunningCovariance.__init__(shape, event_ndims, dtype)
RunningCovariance_init(shape, event_ndims, dtype) ==
  LET e == IF event_ndims = None THEN Len(shape) ELSE event_ndims[1]
  IN IF e > Len(shape) THEN Raise("ValueError: Cannot calculate cross-products")
     ELSE IF e > MaxEventNdims
       THEN Raise("ValueError: event_ndims over 13 not supported")
     ELSE Object([shape |-> shape, event_ndims |-> e, dtype |-> dtype])

\* RunningVariance.__init__(shape, dtype)
RunningVariance_init(shape, dtype) == RunningCovariance_init(shape, Some(0), dtype)

\* RunningCovariance.initialize()
RunningCovariance_initialize(self) ==
  LET extra_ndims_shape ==
        IF self.event_ndims = 0 THEN <<>>
        ELSE PySliceFrom(self.shape, -self.event_ndims)
  IN RunningCovarianceState(Zeros(<<>>), Zeros(self.shape),
                            Zeros(self.shape \o extra_ndims_shape))

Replace_in_place(tuple, fields) == <<fields, fields>>

\* namedtuple._replace with new field values: a new tuple with the fields given; the
\* tuple it is called on is immutable.  <<the tuple returned, the receiver
\* after the call>>.
Replace(tuple, fields) == <<fields, tuple>>

\* RunningCovariance.update(state, new_sample, axis): <<the state returned,
\* the input state after the call>>.
RunningCovariance_update(self, state, new_sample, axis) ==
  LET updated_state ==
        update_running_covariance(state, new_sample, self.event_ndims,
                                  self.dtype, axis)
  IN Replace(state, updated_state)

RunningCovariance_finalize_ignoring_ddof(state, ddof) ==
  TDiv(state.sum_squared_residuals, state.num_samples)

\* RunningCovariance.finalize(state, ddof)
RunningCovariance_finalize(state, ddof) ==
  TDiv(state.sum_squared_residuals, TSub(state.num_samples, Scalar(Num(ddof))))

(***************************************************************************)
(* Nested structures (tf.nest): a leaf with its payload, or a sequence of  *)
(* structures.                                                             *)
(***************************************************************************)
Leaf(x) == [tag |-> "leaf", leaf |-> Some(x), kids |-> <<>>]

Node(kids) == [tag |-> "node", leaf |-> None, kids |-> kids]

IsLeaf(t) == t.tag = "leaf"

LeafOf(t) == t.leaf[1]

\* The payloads of the leaves, in traversal order.
RECURSIVE Flatten(_)
Flatten(t) ==
  IF IsLeaf(t) THEN <<LeafOf(t)>>
  ELSE IF t.kids = <<>> THEN <<>>
  ELSE Flatten(Head(t.kids)) \o Flatten(Node(Tail(t.kids)))

(***************************************************************************)
(* RunningExpectations.                                                    *)
(***************************************************************************)
\* The callables streams are run with, by name.
Call(fn, x) ==
  IF fn = "identity" THEN x
  ELSE IF fn = "square" THEN TMul(x, x)
  ELSE TErr

\* tf.map_fn(fn, t): fn on every slice of t along its first axis, stacked.
MapFn(fn, t) ==
  IF IsErr(t) THEN TErr
  ELSE IF Rank(t) = 0 THEN TErr
  ELSE LET m == t.shape[1]
           rest == Tail(t.shape)
           Slice(j) == MkTensor(rest,
                        [i \in Idx(rest) |-> t.data[<<j>> \o i]])
           outs == [j \in 1..m |-> Call(fn, Slice(j))]
       IN IF m = 0 \/ \E j \in 1..m : IsErr(outs[j]) THEN TErr
          ELSE LET s == <<m>> \o outs[1].shape
               IN MkTensor(s,
                   [i \in Idx(s) |-> outs[i[1]].data[Tail(i)]])

RunningExpectationsState(num_samples, expectation) ==
  [num_samples |-> num_samples, expectation |-> expectation]

\* RunningExpectations.__init__(shape, callables, dtype)
RunningExpectations_init(shape, callables, dtype) ==
  Object([shape |-> shape, callables |-> callables,
          dtype |-> IF IsIntegerDtype(dtype) THEN "float32" ELSE dtype])

\* tf.nest.map_structure(lambda _: tf.zeros(shape, dtype), callables)
RECURSIVE zeros_like_structure(_, _)
zeros_like_structure(callables, shape) ==
  IF IsLeaf(callables) THEN Leaf(Zeros(shape))
  ELSE Node([k \in 1..Len(callables.kids) |->
              zeros_like_structure(callables.kids[k], shape)])

\* RunningExpectations.initialize()
RunningExpectations_initialize(self) ==
  RunningExpectationsState(Zeros(<<>>),
                           zeros_like_structure(self.callables, self.shape))

\* _transpose_if_needed(sample, sample_rank) inside _update_for_one_fn
transpose_if_needed(sample, sample_rank, axis) ==
  IF sample_rank < 2 THEN sample
  ELSE Transpose(sample,
                 <<axis>> \o PyRange(0, axis) \o PyRange(axis + 1, sample_rank))

update_for_one_fn_of_chunk_mean(old_mean, new_sample, axis, fn, rank, chunk_n, new_n_, dtype) ==
  LET chunk_mean ==
        IF axis = None THEN Call(fn, new_sample)
        ELSE Call(fn, ReduceMean(transpose_if_needed(new_sample, rank, axis[1]), 0))
  IN Cast(TAdd(old_mean, TDiv(TMul(chunk_n, TSub(chunk_mean, old_mean)), new_n_)),
          dtype)

\* _update_for_one_fn(old_mean, new_sample, axis, fn, rank), closed over
\* chunk_n, new_n and self.dtype
update_for_one_fn(old_mean, new_sample, axis, fn, rank, chunk_n, new_n_, dtype) ==
  LET chunk_mean ==
        IF axis = None THEN Call(fn, new_sample)
        ELSE ReduceMean(MapFn(fn, transpose_if_needed(new_sample, rank, axis[1])), 0)
      delta == TSub(chunk_mean, old_mean)
      new_mean_component == TDiv(TMul(chunk_n, delta), new_n_)
  IN Cast(TAdd(old_mean, new_mean_component), dtype)

\* nest.map_structure_up_to(self.callables, _update_for_one_fn, ...), the
\* sample, axis and rank broadcast to every leaf by _prepare_args
RECURSIVE update_structure(_, _, _, _, _, _, _)
update_structure(expectation, callables, new_sample, axis, chunk_n, new_n_, dtype) ==
  IF IsLeaf(callables)
    THEN Leaf(update_for_one_fn(LeafOf(expectation), new_sample, axis,
                                LeafOf(callables), Rank(new_sample),
                                chunk_n, new_n_, dtype))
    ELSE Node([k \in 1..Len(callables.kids) |->
                update_structure(expectation.kids[k], callables.kids[k],
                                 new_sample, axis, chunk_n, new_n_, dtype)])

\* RunningExpectations.update(state, new_sample, axis), new_sample one tensor:
\* <<the state returned, a new tuple; the input state after the call>>.
RunningExpectations_update(self, state, sample, axis) ==
  LET new_sample == Cast(sample, self.dtype)
      chunk_n ==
        IF axis = None THEN Cast(Scalar(One), self.dtype)
        ELSE IF ShapeAt(new_sample, axis[1]) < 0 THEN TErr
        ELSE Cast(Scalar(Num(ShapeAt(new_sample, axis[1]))), self.dtype)
      new_n_ == TAdd(state.num_samples, chunk_n)
      new_expectation ==
        update_structure(state.expectation, self.callables, new_sample, axis,
                         chunk_n, new_n_, self.dtype)
  IN <<RunningExpectationsState(new_n_, new_expectation), state>>

RECURSIVE divide_structure(_, _)
divide_structure(tree, n) ==
  IF IsLeaf(tree) THEN Leaf(TDiv(LeafOf(tree), n))
  ELSE Node([k \in 1..Len(tree.kids) |-> divide_structure(tree.kids[k], n)])

RunningExpectations_finalize_dividing(state) ==
  divide_structure(state.expectation, state.num_samples)

\* RunningExpectations.finalize(state)
RunningExpectations_finalize(state) == state.expectation

\* An update raised iff some tensor of its result is the backend's exception.
RaisedExpectations(st) ==
  IsErr(st.num_samples) \/ \E k \in 1..Len(Flatten(st.expectation)) :
                              IsErr(Flatten(st.expectation)[k])

(***************************************************************************)
(* The inputs the engines are run with.                                    *)
(***************************************************************************)
OnesShape(n) == [k \in 1..n |-> 1] \o <<>>

\* The shapes streams are run over.
Shapes == {<<>>, <<2>>, <<2, 1>>}

EventNdimsInputs == {None, Some(0), Some(1)}

\* The samples of a shape that streams are fed: three scalars, or the two
\* arrays of zeros and ones that start with one and end with it or with zero.
Samples(shape) ==
  IF shape = <<>> THEN {Scalar(Num(v)) : v \in 1..3}
  ELSE {MkTensor(shape, [i \in Idx(shape) |->
                           IF i = [k \in 1..Len(shape) |-> 1] THEN One ELSE v])
          : v \in {Zero, One}}

\* The chunk holding the samples xs stacked along axis a (0-based).
Stack(xs, a, shape) ==
  LET s == InsertAt(shape, a + 1, Len(xs))
  IN MkTensor(s, [i \in Idx(s) |-> xs[i[a + 1]].data[RemoveAt(i, a + 1)]])

\* The axis arguments that index a chunk of samples of the shape.
Axes(shape) == (-(Len(shape) + 1))..Len(shape)

CallableStructures ==
  {Leaf("identity"),
   Node(<<Leaf("identity"), Leaf("square")>>),
   Node(<<Leaf("square"), Node(<<Leaf("identity")>>)>>)}

ExpectationShapes == {<<>>, <<2>>}

Dtypes == {"float32", "int32"}

Ddofs == 0..2

\* The constructor arguments of the construction runs.
ConstructShapes == Shapes \cup {OnesShape(n) : n \in 0..MaxRank}

ConstructEventNdims == {None} \cup {Some(e) : e \in -2..(MaxRank + 1)}

\* The targets and event_ndims of the outer-product runs.
OuterShapes == {<<>>, <<2>>, <<2, 2>>, <<1, 2>>, OnesShape(MaxEventNdims)}

OuterTargets ==
  UNION {{MkTensor(shape, d) : d \in [Idx(shape) -> {Num(v) : v \in -1..1}]}
           : shape \in OuterShapes}

(***************************************************************************)
(* State.  A caller holds one engine (cov or exp), the newest state of its *)
(* stream (state, estate) and the state it passed to the latest update     *)
(* (prev, eprev).  hist is the samples the newest state has absorbed, the  *)
(* first nprev of them absorbed by prev.  final and efinal hold the latest *)
(* finalize result, lastError the exception of the latest call; the caller *)
(* takes note of either (Acknowledge) before its next call.  target, ndims *)
(* and outer are an application of the outer-product operator, ctorArgs   *)
(* the arguments of the latest constructor call, lastAxis the axis         *)
(* argument of the update call that raised lastError.                      *)
(***************************************************************************)
VARIABLES cov, state, prev, exp, estate, eprev, hist, nprev, final, efinal,
          lastError, lastAxis, ctorArgs, target, ndims, outer

vars == <<cov, state, prev, exp, estate, eprev, hist, nprev, final, efinal,
          lastError, lastAxis, ctorArgs, target, ndims, outer>>

covVars == <<cov, state, prev, final, ctorArgs>>

expVars == <<exp, estate, eprev, efinal>>

outerVars == <<target, ndims, outer>>

Init ==
  /\ cov = None /\ state = None /\ prev = None /\ final = None
  /\ exp = None /\ estate = None /\ eprev = None /\ efinal = None
  /\ hist = <<>> /\ nprev = 0 /\ lastError = "" /\ ctorArgs = None
  /\ lastAxis = None
  /\ target = None /\ ndims = 0 /\ outer = None

\* No finalized value or exception is waiting for the caller.
Idle == final = None /\ efinal = None /\ lastError = ""

\* A constructor that raised made no object: the caller may construct anew.
Acknowledge ==
  /\ ~Idle
  /\ final' = None /\ efinal' = None /\ lastError' = "" /\ lastAxis' = None
  /\ ctorArgs' = IF cov = None THEN None ELSE ctorArgs
  /\ UNCHANGED <<cov, state, prev, exp, estate, eprev, hist, nprev, outerVars>>

\* cov = RunningCovariance(shape, event_ndims)
ConstructCovariance(shape, event_ndims) ==
  /\ Idle /\ cov = None /\ exp = None
  /\ LET r == RunningCovariance_init(shape, event_ndims, "float32")
     IN cov' = r.obj /\ lastError' = r.raised
  /\ ctorArgs' = Some([cls |-> "RunningCovariance", shape |-> shape,
                       event_ndims |-> event_ndims])
  /\ UNCHANGED <<state, prev, final, expVars, hist, nprev, outerVars,
                 lastAxis>>

\* cov = RunningVariance(shape)
ConstructVariance(shape) ==
  /\ Idle /\ cov = None /\ exp = None
  /\ LET r == RunningVariance_init(shape, "float32")
     IN cov' = r.obj /\ lastError' = r.raised
  /\ ctorArgs' = Some([cls |-> "RunningVariance", shape |-> shape,
                       event_ndims |-> None])
  /\ UNCHANGED <<state, prev, final, expVars, hist, nprev, outerVars,
                 lastAxis>>

\* state = cov.initialize()
Initialize ==
  /\ Idle /\ cov # None /\ state = None
  /\ state' = Some(RunningCovariance_initialize(cov[1]))
  /\ UNCHANGED <<cov, prev, final, ctorArgs, hist, nprev, lastError, expVars,
                 outerVars, lastAxis>>

\* The caller's step state = cov.update(state, new_sample, axis), the chunk
\* new_sample holding the samples xs.
CallUpdate(new_sample, axis, xs) ==
  \E r \in {RunningCovariance_update(cov[1], state[1], new_sample, axis)} :
     IF Raised(r[1])
          THEN /\ lastError' = "backend error"
               /\ lastAxis' = axis
               /\ UNCHANGED <<cov, state, prev, final, ctorArgs, hist, nprev>>
          ELSE /\ state' = Some(r[1])
               /\ prev' = Some(r[2])
               /\ hist' = hist \o xs
               /\ nprev' = Len(hist)
               /\ UNCHANGED <<cov, final, ctorArgs, lastError, lastAxis>>

\* state = cov.update(state, x)
Update(x) ==
  /\ Idle /\ cov # None /\ state # None
  /\ Len(hist) < MaxSamples
  /\ CallUpdate(x, None, <<x>>)
  /\ UNCHANGED <<expVars, outerVars>>

\* state = cov.update(state, chunk, axis=k), the chunk holding the samples xs
UpdateChunk(xs, k) ==
  /\ Idle /\ cov # None /\ state # None
  /\ Len(hist) + Len(xs) <= MaxSamples
  /\ CallUpdate(Stack(xs, NormAxis(k, Len(cov[1].shape) + 1), cov[1].shape),
                Some(k), xs)
  /\ UNCHANGED <<expVars, outerVars>>

\* The caller goes on from the state it passed to the latest update.
Rewind ==
  /\ Idle /\ prev # None /\ nprev < Len(hist)
  /\ state' = prev
  /\ hist' = SubSeq(hist, 1, nprev)
  /\ UNCHANGED <<cov, prev, nprev, final, ctorArgs, lastError, expVars,
                 outerVars, lastAxis>>

\* cov.finalize(state, ddof)
Finalize(ddof) ==
  /\ Idle /\ cov # None /\ state # None
  /\ final' = Some([ddof |-> ddof,
                    value |-> RunningCovariance_finalize(state[1], ddof)])
  /\ UNCHANGED <<cov, state, prev, ctorArgs, hist, nprev, lastError, expVars,
                 outerVars, lastAxis>>

CovShape == IF cov = None THEN <<>> ELSE cov[1].shape

CovNext ==
  \/ \E shape \in Shapes, e \in EventNdimsInputs : ConstructCovariance(shape, e)
  \/ \E shape \in Shapes : ConstructVariance(shape)
  \/ Initialize
  \/ \E x \in Samples(CovShape) : Update(x)
  \/ \E m \in 1..MaxSamples : \E xs \in [1..m -> Samples(CovShape)] :
       \E k \in Axes(CovShape) : UpdateChunk(xs, k)
  \/ Rewind
  \/ \E ddof \in Ddofs : Finalize(ddof)

\* exp = RunningExpectations(shape, callables, dtype)
ConstructExpectations(shape, callables, dtype) ==
  /\ Idle /\ cov = None /\ exp = None
  /\ LET r == RunningExpectations_init(shape, callables, dtype)
     IN exp' = r.obj /\ lastError' = r.raised
  /\ UNCHANGED <<covVars, estate, eprev, efinal, hist, nprev, outerVars,
                 lastAxis>>

\* estate = exp.initialize()
InitializeExpectations ==
  /\ Idle /\ exp # None /\ estate = None
  /\ estate' = Some(RunningExpectations_initialize(exp[1]))
  /\ UNCHANGED <<exp, eprev, efinal, hist, nprev, lastError, covVars, outerVars,
                 lastAxis>>

\* The caller's step estate = exp.update(estate, new_sample, axis).
CallUpdateExpectations(new_sample, axis, xs) ==
  \E r \in {RunningExpectations_update(exp[1], estate[1], new_sample, axis)} :
     IF RaisedExpectations(r[1])
          THEN /\ lastError' = "backend error"
               /\ lastAxis' = axis
               /\ UNCHANGED <<exp, estate, eprev, efinal, hist, nprev>>
          ELSE /\ estate' = Some(r[1])
               /\ eprev' = Some(r[2])
               /\ hist' = hist \o xs
               /\ nprev' = Len(hist)
               /\ UNCHANGED <<exp, efinal, lastError, lastAxis>>

\* estate = exp.update(estate, x)
UpdateExpectations(x) ==
  /\ Idle /\ exp # None /\ estate # None
  /\ Len(hist) < MaxSamples
  /\ CallUpdateExpectations(x, None, <<x>>)
  /\ UNCHANGED <<covVars, outerVars>>

\* estate = exp.update(estate, chunk, axis=k), the chunk holding the samples xs
UpdateChunkExpectations(xs, k) ==
  /\ Idle /\ exp # None /\ estate # None
  /\ Len(hist) + Len(xs) <= MaxSamples
  /\ CallUpdateExpectations(
       Stack(xs, NormAxis(k, Len(exp[1].shape) + 1), exp[1].shape), Some(k), xs)
  /\ UNCHANGED <<covVars, outerVars>>

\* The caller goes on from the state it passed to the latest update.
RewindExpectations ==
  /\ Idle /\ eprev # None /\ nprev < Len(hist)
  /\ estate' = eprev
  /\ hist' = SubSeq(hist, 1, nprev)
  /\ UNCHANGED <<exp, eprev, nprev, efinal, lastError, covVars, outerVars,
                 lastAxis>>

\* exp.finalize(estate)
FinalizeExpectations ==
  /\ Idle /\ exp # None /\ estate # None
  /\ efinal' = Some(RunningExpectations_finalize(estate[1]))
  /\ UNCHANGED <<exp, estate, eprev, hist, nprev, lastError, covVars, outerVars,
                 lastAxis>>

ExpShape == IF exp = None THEN <<>> ELSE exp[1].shape

ExpNext ==
  \/ \E shape \in ExpectationShapes, c \in CallableStructures, d \in Dtypes :
       ConstructExpectations(shape, c, d)
  \/ InitializeExpectations
  \/ \E x \in Samples(ExpShape) : UpdateExpectations(x)
  \/ \E m \in 1..MaxSamples : \E xs \in [1..m -> Samples(ExpShape)] :
       \E k \in Axes(ExpShape) : UpdateChunkExpectations(xs, k)
  \/ RewindExpectations
  \/ FinalizeExpectations

Next == CovNext \/ ExpNext \/ Acknowledge

Spec == Init /\ [][Next]_vars

\* Streams of unchunked updates of the covariance engine.
NextUnchunked ==
  \/ \E shape \in Shapes, e \in EventNdimsInputs : ConstructCovariance(shape, e)
  \/ \E shape \in Shapes : ConstructVariance(shape)
  \/ Initialize
  \/ \E x \in Samples(CovShape) : Update(x)
  \/ Rewind
  \/ \E ddof \in Ddofs : Finalize(ddof)
  \/ Acknowledge

SpecUnchunked == Init /\ [][NextUnchunked]_vars

\* Constructions alone, over the wider constructor arguments.
NextConstruct ==
  \/ \E shape \in ConstructShapes, e \in ConstructEventNdims :
       ConstructCovariance(shape, e)
  \/ \E shape \in ConstructShapes : ConstructVariance(shape)
  \/ Acknowledge

SpecConstruct == Init /\ [][NextConstruct]_vars

\* Applications of the outer-product operator.
InitOuter ==
  /\ cov = None /\ state = None /\ prev = None /\ final = None
  /\ exp = None /\ estate = None /\ eprev = None /\ efinal = None
  /\ hist = <<>> /\ nprev = 0 /\ lastError = "" /\ ctorArgs = None
  /\ lastAxis = None
  /\ outer = None
  /\ \E t \in OuterTargets :
       /\ target = Some(t)
       /\ ndims \in 0..(IF Rank(t) < MaxEventNdims THEN Rank(t) ELSE MaxEventNdims)

\* outer = _batch_outer_product(target, ndims)
ApplyOuter ==
  /\ outer = None
  /\ outer' = Some(batch_outer_product(target[1], ndims))
  /\ UNCHANGED <<covVars, expVars, hist, nprev, lastError, target, ndims,
                 lastAxis>>

NextOuter == ApplyOuter

SpecOuter == InitOuter /\ [][NextOuter]_vars

(***************************************************************************)
(* What the streams are compared with: the statistics of the samples hist, *)
(* computed directly from their definitions.                               *)
(***************************************************************************)
AllFinite(t) == ~IsErr(t) /\ \A i \in DOMAIN t.data : IsFinite(t.data[i])

NoneFinite(t) == ~IsErr(t) /\ \A i \in DOMAIN t.data : ~IsFinite(t.data[i])

\* x >= 0 as floating-point comparison: false for not-a-number.
RNonNeg(x) == ~IsNan(x) /\ x[1] >= 0

\* The structure with every payload erased.
RECURSIVE Topology(_)
Topology(t) ==
  IF IsLeaf(t) THEN Leaf(0)
  ELSE Node([k \in 1..Len(t.kids) |-> Topology(t.kids[k])])

NumSamples(st) == st.num_samples.data[<<>>]

\* The elementwise sum of the callable fn's values at x_1, ..., x_N, zero of
\* the shape for N = 0.
RECURSIVE SumOver(_, _, _)
SumOver(xs, fn, shape) ==
  IF xs = <<>> THEN Zeros(shape)
  ELSE TAdd(SumOver(SubSeq(xs, 1, Len(xs) - 1), fn, shape),
            Call(fn, xs[Len(xs)]))

MeanOver(xs, fn, shape) == TDiv(SumOver(xs, fn, shape), Scalar(Num(Len(xs))))

MeanOf(xs, shape) == MeanOver(xs, "identity", shape)

\* The state after initialize() and one unchunked update per sample of xs.
RECURSIVE Unchunked(_, _)
Unchunked(self, xs) ==
  IF xs = <<>> THEN RunningCovariance_initialize(self)
  ELSE RunningCovariance_update(self, Unchunked(self, SubSeq(xs, 1, Len(xs) - 1)),
                                xs[Len(xs)], None)[1]

\* sum over t of (x_t[b,i] - mean[b,i]) * (x_t[b,j] - mean[b,j]) at every
\* index <<b, i, j>>, the event being the last e dimensions of the shape.
CenteredSum(xs, mean, e) ==
  LET shape == mean.shape
      r == Len(shape)
      s == shape \o SubSeq(shape, r - e + 1, r)
      I(idx) == SubSeq(idx, 1, r)
      J(idx) == SubSeq(idx, 1, r - e) \o SubSeq(idx, r + 1, r + e)
  IN MkTensor(s, [idx \in Idx(s) |->
       RSum([t \in 1..Len(xs) |->
               RMul(RSub(xs[t].data[I(idx)], mean.data[I(idx)]),
                    RSub(xs[t].data[J(idx)], mean.data[J(idx)]))])])

\* t[b,i,j] = t[b,j,i] and t[b,i,i] >= 0 at every index of a tensor of shape
\* B + E + E, E the last e dimensions of the shape.
SymmetricNonNegDiag(t, shape, e) ==
  LET r == Len(shape)
      Swap(idx) == SubSeq(idx, 1, r - e) \o SubSeq(idx, r + 1, r + e)
                     \o SubSeq(idx, r - e + 1, r)
  IN /\ ~IsErr(t)
     /\ t.shape = shape \o SubSeq(shape, r - e + 1, r)
     /\ \A idx \in DOMAIN t.data :
          /\ t.data[idx] = t.data[Swap(idx)]
          /\ (idx = Swap(idx) => RNonNeg(t.data[idx]))

\* The tree of the means of the callables' values over the samples xs.
RECURSIVE ExpectedStructure(_, _, _)
ExpectedStructure(callables, xs, shape) ==
  IF IsLeaf(callables)
    THEN Leaf(MeanOver(xs, LeafOf(callables), shape))
    ELSE Node([k \in 1..Len(callables.kids) |->
                ExpectedStructure(callables.kids[k], xs, shape)])

(***************************************************************************)
(* The claims.                                                             *)
(***************************************************************************)

\* C1: whatever the grouping of the samples into chunked and unchunked
\* updates, the covariance state equals the state that one unchunked update
\* per sample gives.
C1_ChunkInvariance ==
  (cov # None /\ state # None) => state[1] = Unchunked(cov[1], hist)

\* C2: after N >= 1 unchunked updates the mean is (1/N) * sum of the samples
\* and num_samples is N.
C2_UnchunkedMean ==
  (cov # None /\ state # None /\ hist # <<>>) =>
     /\ state[1].mean = MeanOf(hist, cov[1].shape)
     /\ state[1].num_samples = Scalar(Num(Len(hist)))

C2_Witness ==
  /\ cov # None /\ state # None /\ Len(hist) >= 3
  /\ state[1].mean = MeanOf(hist, cov[1].shape)
  /\ \E i \in DOMAIN state[1].mean.data : state[1].mean.data[i][2] = 3

\* C3: sum_squared_residuals is the mean-centred sum of outer products of the
\* samples absorbed, and finalize with N > ddof is that sum over N - ddof.
C3_CenteredResiduals ==
  (cov # None /\ state # None) =>
     /\ state[1].sum_squared_residuals
          = CenteredSum(hist, state[1].mean, cov[1].event_ndims)
     /\ (final # None /\ Len(hist) > final[1].ddof) =>
           final[1].value
             = TDiv(CenteredSum(hist, state[1].mean, cov[1].event_ndims),
                    Scalar(Num(Len(hist) - final[1].ddof)))

\* C4 as stated: finalize with num_samples <= ddof raises nothing and is
\* non-finite in every entry.
C4_DegenerateFinalize ==
  (final # None /\ NumSamples(state[1])[1] <= final[1].ddof) =>
     NoneFinite(final[1].value)

\* C4 amended: finalize never raises; with num_samples = ddof it is
\* non-finite in every entry, with num_samples < ddof it is the finite
\* quotient by the negative count num_samples - ddof.
C4_DegenerateFinalizeAmended ==
  final # None =>
     LET n == NumSamples(state[1])[1]
         ddof == final[1].ddof
         ssr == state[1].sum_squared_residuals
     IN /\ ~IsErr(final[1].value)
        /\ final[1].value.shape = ssr.shape
        /\ n = ddof => NoneFinite(final[1].value)
        /\ n < ddof =>
             \A i \in DOMAIN ssr.data :
                final[1].value.data[i] = RDiv(ssr.data[i], Num(n - ddof))

C4_Witness ==
  /\ final # None /\ final[1].ddof = 2 /\ NumSamples(state[1]) = Num(2)
  /\ \E i \in DOMAIN final[1].value.data : final[1].value.data[i] = Inf(1)

\* C5: a constructor call with event_ndims > rank(shape) or > 13 raises and
\* makes no object; every object made has event_ndims in 0..13 and at most
\* rank(shape); RunningVariance always constructs with event_ndims = 0.
C5_ConstructorValidation ==
  ctorArgs # None =>
     LET a == ctorArgs[1]
         rank == Len(a.shape)
         e == IF a.event_ndims = None THEN rank ELSE a.event_ndims[1]
     IN IF a.cls = "RunningVariance"
          THEN cov # None /\ lastError = "" /\ cov[1].event_ndims = 0
          ELSE /\ (e > rank \/ e > 13) => (cov = None /\ lastError # "")
               /\ cov # None =>
                    /\ cov[1].event_ndims \in 0..13
                    /\ cov[1].event_ndims <= Len(cov[1].shape)
                    /\ cov[1].event_ndims = e

\* C6: an update returns a new state and leaves the state it was given and
\* the engine as they were.
C6_UpdatePure ==
  [][/\ Len(hist') > Len(hist) =>
          /\ cov' = cov /\ exp' = exp
          /\ (cov # None => prev' = state /\ state' # None)
          /\ (exp # None => eprev' = estate /\ estate' # None)
     /\ (lastError' = "backend error" /\ lastError = "") =>
          UNCHANGED <<cov, state, exp, estate>>]_vars

C6_Witness ==
  /\ cov # None /\ prev # None /\ state # None /\ nprev + 2 = Len(hist)
  /\ prev[1] = Unchunked(cov[1], SubSeq(hist, 1, nprev))
  /\ state[1].num_samples # prev[1].num_samples

\* C7: num_samples is the number of samples absorbed and every leaf of the
\* expectation is the mean of its callable over them, however they were
\* grouped; an update raises only for a negative axis into a chunk of rank
\* two or more.
C7_RunningMean ==
  /\ (exp # None /\ estate # None /\ hist # <<>>) =>
        /\ estate[1].num_samples = Scalar(Num(Len(hist)))
        /\ estate[1].expectation
             = ExpectedStructure(exp[1].callables, hist, exp[1].shape)
  /\ (exp # None /\ lastError = "backend error") =>
        (lastAxis # None /\ lastAxis[1] < 0 /\ Len(exp[1].shape) >= 1)

C7_Witness ==
  /\ exp # None /\ estate # None
  /\ exp[1].callables = Node(<<Leaf("identity"), Leaf("square")>>)
  /\ hist = <<Scalar(Num(1)), Scalar(Num(2)), Scalar(Num(3))>>
  /\ nprev = 1
  /\ estate[1].expectation
       = Node(<<Leaf(Scalar(Num(2))), Leaf(Scalar(Frac(14, 3)))>>)

\* C8: the state of initialize() has num_samples 0 and a tree of zero arrays
\* of the configured shape with the topology of callables; finalize returns
\* the state's expectation as it is, finite in every entry.
C8_ZeroStateAndFinalize ==
  /\ (exp # None /\ estate # None /\ hist = <<>>) =>
        /\ estate[1].num_samples = Scalar(Zero)
        /\ Topology(estate[1].expectation) = Topology(exp[1].callables)
        /\ \A k \in 1..Len(Flatten(estate[1].expectation)) :
              Flatten(estate[1].expectation)[k] = Zeros(exp[1].shape)
  /\ efinal # None =>
        /\ efinal[1] = estate[1].expectation
        /\ \A k \in 1..Len(Flatten(efinal[1])) :
              AllFinite(Flatten(efinal[1])[k])

C8_Witness ==
  /\ exp # None /\ estate # None /\ hist = <<>> /\ efinal # None
  /\ exp[1].callables = Node(<<Leaf("square"), Node(<<Leaf("identity")>>)>>)
  /\ efinal[1] = Node(<<Leaf(Zeros(<<2>>)), Node(<<Leaf(Zeros(<<2>>))>>)>>)

\* C9: the outer product of a target of shape B + E has shape B + E + E and
\* the entry target[b,i] * target[b,j] at <<b, i, j>>; the index labels are
\* pairwise distinct lowercase letters; with no event dimension it squares.
C9_OuterProduct ==
  outer # None =>
     LET t == target[1]
         r == Rank(t)
         s == t.shape \o SubSeq(t.shape, r - ndims + 1, r)
         labels == assign_indices(ndims)
     IN /\ ~IsErr(outer[1])
        /\ outer[1].shape = s
        /\ \A idx \in Idx(s) :
             outer[1].data[idx]
               = RMul(t.data[SubSeq(idx, 1, r)],
                      t.data[SubSeq(idx, 1, r - ndims)
                               \o SubSeq(idx, r + 1, r + ndims)])
        /\ Len(labels) = 2 * ndims
        /\ \A k \in 1..Len(labels) : IsLowercase(labels[k])
        /\ \A k, l \in 1..Len(labels) : labels[k] = labels[l] => k = l
        /\ ndims = 0 => outer[1] = TMul(t, t)

C9_Witness ==
  /\ outer # None /\ ndims = 1 /\ target # None
  /\ target[1].shape = <<2, 2>>
  /\ outer[1].shape = <<2, 2, 2>>
  /\ outer[1].data[<<1, 1, 2>>] = Num(-1)
  /\ outer[1].data[<<2, 1, 2>>] = Num(0)

\* C10: sum_squared_residuals is symmetric in its two event index groups
\* with a non-negative diagonal, and so is finalize with ddof = 0 after a
\* sample or more.
C10_SymmetricResiduals ==
  (cov # None /\ state # None) =>
     /\ SymmetricNonNegDiag(state[1].sum_squared_residuals, cov[1].shape,
                            cov[1].event_ndims)
     /\ (final # None /\ final[1].ddof = 0 /\ Len(hist) >= 1) =>
           SymmetricNonNegDiag(final[1].value, cov[1].shape, cov[1].event_ndims)

====
